---- MODULE Spec2Model ----
(***************************************************************************)
(* Patient gateway of sharath453/pms: the Django URL table                  *)
(* (patients/urls.py), the request handlers (patients/views.py), the        *)
(* input serializer (patients/serializers.py) and the audit table           *)
(* (patients/models.py).                                                    *)
(*                                                                          *)
(* Text is a sequence of one-character strings, so that strip, join and     *)
(* quote are computed character by character.  A JSON object is a function  *)
(* whose domain is the set of keys that are present.                        *)
(***************************************************************************)
EXTENDS Integers, Sequences, FiniteSets, TLC

VARIABLES
    log,        \* rows of the PatientLog table, oldest first
    logBefore,  \* the PatientLog rows as they were when the last request arrived
    request,    \* the last inbound request
    view,       \* the view the URL resolver dispatched it to, with its kwargs
    upstream,   \* the calls the last request made to the FHIR server, in order
    response,   \* the response the client got
    entry,      \* NameSpec: the bundle entry being flattened
    site,       \* NameSpec: the handler whose flattening code ran last
    flat        \* NameSpec: what that code produced

vars == <<log, logBefore, request, view, upstream, response, entry, site, flat>>

(***************************************************************************)
(* Bounds of the model.                                                     *)
(***************************************************************************)
\* requests are served while the audit table holds fewer rows than this
MaxLog == 2
\* the longest "given" array of a flattened name
MaxGiven == 2

(***************************************************************************)
(* Text.                                                                    *)
(***************************************************************************)
\* Python's None where a text is expected (json.dumps writes it as null)
NoneText == <<"None">>

Whitespace == {" ", "\t", "\n"}

Repeat(c, n) == [i \in 1..n |-> c]

RECURSIVE lstrip(_)
\* str.lstrip(): drop the leading whitespace
lstrip(s) ==
    IF s # <<>> /\ Head(s) \in Whitespace THEN lstrip(Tail(s)) ELSE s

RECURSIVE rstrip(_)
\* str.rstrip(): drop the trailing whitespace
rstrip(s) ==
    IF s # <<>> /\ s[Len(s)] \in Whitespace
    THEN rstrip(SubSeq(s, 1, Len(s) - 1))
    ELSE s

\* str.strip()
strip(s) == rstrip(lstrip(s))

RECURSIVE join(_, _)
\* sep.join(parts)
join(sep, parts) ==
    IF parts = <<>> THEN <<>>
    ELSE IF Len(parts) = 1 THEN parts[1]
    ELSE parts[1] \o sep \o join(sep, Tail(parts))

\* urllib.parse.quote of one character: letters, digits and _.-~/ are kept,
\* anything else is written as %XX
quoteChar(c) ==
    IF c = " " THEN <<"%", "2", "0">>
    ELSE IF c = "&" THEN <<"%", "2", "6">>
    ELSE <<c>>

RECURSIVE quote(_)
quote(s) == IF s = <<>> THEN <<>> ELSE quoteChar(Head(s)) \o quote(Tail(s))

\* dict.get(key, default)
Get(d, k, default) == IF k \in DOMAIN d THEN d[k] ELSE default

EmptyDict == [k \in {} |-> <<>>]

(***************************************************************************)
(* patients/serializers.py: PatientSerializer.                              *)
(***************************************************************************)
\* CharField(max_length=100)
MaxLength == 100

GenderChoices == {"male", "female", "other", "unknown"}

DaysInMonth(y, m) ==
    IF m \in {4, 6, 9, 11} THEN 30
    ELSE IF m # 2 THEN 31
    ELSE IF (y % 4 = 0 /\ y % 100 # 0) \/ y % 400 = 0 THEN 29
    ELSE 28

\* DateField: the text parses as a calendar date.  A date text is modelled by
\* its three numbers <<year, month, day>>.
ValidDate(d) ==
    /\ Len(d) = 3
    /\ d[1] \in 1..9999
    /\ d[2] \in 1..12
    /\ d[3] \in 1..DaysInMonth(d[1], d[2])

\* CharField: required, whitespace trimmed, blank refused, at most
\* max_length characters
CharFieldOk(data, field) ==
    /\ field \in DOMAIN data
    /\ strip(data[field]) # <<>>
    /\ Len(strip(data[field])) <= MaxLength

\* serializer.errors: the fields that fail
SerializerErrors(data) ==
    {f \in {"first_name", "last_name"} : ~CharFieldOk(data, f)}
    \cup (IF "gender" \in DOMAIN data /\ data["gender"] \in GenderChoices
          THEN {} ELSE {"gender"})
    \cup (IF "birth_date" \in DOMAIN data /\ ValidDate(data["birth_date"])
          THEN {} ELSE {"birth_date"})

\* serializer.is_valid()
is_valid(data) == SerializerErrors(data) = {}

\* serializer.validated_data
validated_data(data) ==
    [first_name |-> strip(data["first_name"]),
     last_name  |-> strip(data["last_name"]),
     gender     |-> data["gender"],
     birth_date |-> data["birth_date"]]

(***************************************************************************)
(* patients/models.py and the log_operation helper.                         *)
(***************************************************************************)
PatientLog(operation, patient_id, status, message) ==
    [operation |-> operation, patient_id |-> patient_id,
     status |-> status, message |-> message]

\* a mis-written helper that replaces the table by the new row
log_operation_overwrite(rows, operation, patient_id, status, message) ==
    <<PatientLog(operation, patient_id, status, message)>>

\* PatientLog.objects.create(...): one row more, at the end
log_operation(rows, operation, patient_id, status, message) ==
    Append(rows, PatientLog(operation, patient_id, status, message))

(***************************************************************************)
(* patients/urls.py: the URL table and Django's first-match resolver.       *)
(* A route and a request path are the sequences of their segments; the      *)
(* trailing slash is implied.                                               *)
(***************************************************************************)
StrConverter == "<str:patient_id>"

urlpatterns ==
    << [route |-> <<"api", "patients">>,                    view |-> "create_patient"],
       [route |-> <<"api", "patients", StrConverter>>,      view |-> "patient_detail"],
       [route |-> <<"api", "patients", "allPatientCount">>, view |-> "all_patient_count"],
       [route |-> <<"api", "patients", "search">>,          view |-> "search_patient"],
       [route |-> <<"api", "patients", "list">>,            view |-> "list_patients_by_last_updated"],
       [route |-> <<>>,                                     view |-> "create_patient_view"],
       [route |-> <<"patients", "list">>,                   view |-> "list_patients_view"],
       [route |-> <<"patients", "search">>,                 view |-> "search_patients_view"],
       [route |-> <<"patients", StrConverter, "update">>,   view |-> "update_patient_view"],
       [route |-> <<"patients", StrConverter, "delete">>,   view |-> "delete_patient_view"] >>

\* one segment of a route against one segment of the path: the str converter
\* takes any non-empty segment, a literal only itself
SegmentMatches(seg, s) == IF seg = StrConverter THEN s # "" ELSE seg = s

RouteMatches(route, path) ==
    /\ Len(route) = Len(path)
    /\ \A i \in 1..Len(route) : SegmentMatches(route[i], path[i])

\* what the str converter captured
Kwargs(route, path) ==
    IF \E i \in 1..Len(route) : route[i] = StrConverter
    THEN path[CHOOSE i \in 1..Len(route) : route[i] = StrConverter]
    ELSE ""

\* URLResolver.resolve: the first pattern of the list that matches
resolve(path) ==
    LET hits == {i \in 1..Len(urlpatterns) : RouteMatches(urlpatterns[i].route, path)}
    IN  IF hits = {} THEN [view |-> "Http404", patient_id |-> ""]
        ELSE LET i == CHOOSE j \in hits : \A k \in hits : j <= k
             IN  [view |-> urlpatterns[i].view,
                  patient_id |-> Kwargs(urlpatterns[i].route, path)]

(***************************************************************************)
(* The FHIR server as the gateway sees it.  The outcome of one call is      *)
(* either an exception raised by the HTTP client (raised) or a response     *)
(* with a status, a body text and, when the text is JSON, the document.     *)
(***************************************************************************)
NoneId == "None"
NoneDate == <<>>

Raised ==
    [raised |-> TRUE, status |-> 0, text |-> "", isJson |-> FALSE, doc |-> EmptyDict]

Answer(status, text, doc) ==
    [raised |-> FALSE, status |-> status, text |-> text, isJson |-> TRUE, doc |-> doc]

NotJson(status, text) ==
    [raised |-> FALSE, status |-> status, text |-> text, isJson |-> FALSE, doc |-> EmptyDict]

\* one upstream call as the gateway issued it, with what came back
Call(method, url, outcome) == [method |-> method, url |-> url, outcome |-> outcome]

CallJson(method, url, payload, outcome) ==
    [method |-> method, url |-> url, json |-> payload, outcome |-> outcome]

\* Response.raise_for_status(): HTTPError for a 4xx or 5xx status
raises_for_status(r) == r.status >= 400 /\ r.status < 600

\* the first exception of "r = requests.x(...); r.raise_for_status()",
\* or "" when there is none
SendError(r) ==
    IF r.raised THEN "ConnectionError"
    ELSE IF raises_for_status(r) THEN "HTTPError"
    ELSE ""

\* the same, followed by r.json()
FetchError(r) ==
    IF SendError(r) # "" THEN SendError(r)
    ELSE IF ~r.isJson THEN "JSONDecodeError"
    ELSE ""

(***************************************************************************)
(* patients/views.py: what a view returns is the response, the upstream     *)
(* calls it made and the audit table it leaves.                             *)
(***************************************************************************)
Result(resp, calls, rows) == [response |-> resp, calls |-> calls, log |-> rows]

JsonResponse(status, data) == [kind |-> "json", status |-> status, data |-> data]

ErrorResponse(status, error) ==
    [kind |-> "json", status |-> status, data |-> [error |-> error]]

\* an exception that leaves the view: Django answers 500
Unhandled(error) == [kind |-> "exception", status |-> 500, error |-> error]

Render(template, context) ==
    [kind |-> "html", status |-> 200, template |-> template, context |-> context]

Redirect(to) == [kind |-> "redirect", status |-> 302, to |-> to]

\* the payload the API views build from validated data (str(date) is the
\* ISO text of the date)
ApiPayload(data) ==
    [resourceType |-> "Patient",
     name |-> << [given |-> <<data.first_name>>, family |-> data.last_name] >>,
     gender |-> data.gender,
     birthDate |-> data.birth_date]

\* the id the create view reports, were it to forget the upstream document
created_id_none(doc) == NoneId

\* pid = r.json().get("id")
created_id(doc) == Get(doc, "id", NoneId)

create_patient(req, rows, up) ==
    IF is_valid(req.data)
    THEN LET data == validated_data(req.data)
             r == up[1]
             calls == <<CallJson("POST", <<"Patient">>, ApiPayload(data), r)>>
             e == FetchError(r)
         IN  IF e = ""
             THEN LET pid == created_id(r.doc)
                  IN  Result(JsonResponse(201, [id |-> pid, message |-> "Patient created"]),
                             calls,
                             log_operation(rows, "CREATE", pid, "success", "Patient created"))
             ELSE Result(ErrorResponse(400, e), calls,
                         log_operation(rows, "CREATE", NoneId, "failed", e))
    ELSE Result(JsonResponse(400, [errors |-> SerializerErrors(req.data)]), <<>>, rows)

\* name_data = patient.get("name", [{}])[0]: IndexError on an empty list
NameData(p) ==
    LET names == Get(p, "name", <<EmptyDict>>)
    IN  IF names = <<>> THEN [error |-> "IndexError", value |-> EmptyDict]
        ELSE [error |-> "", value |-> names[1]]

\* name_data.get("given", [""])[0]: IndexError on an empty list
FirstGiven(name_data) ==
    LET given == Get(name_data, "given", << <<>> >>)
    IN  IF given = <<>> THEN [error |-> "IndexError", value |-> <<>>]
        ELSE [error |-> "", value |-> given[1]]

\* the first exception of building the flattened patient, or ""
PatientViewError(p) ==
    IF NameData(p).error # "" THEN NameData(p).error
    ELSE FirstGiven(NameData(p).value).error

\* the flattened patient of the by-id views
PatientView(p) ==
    [id |-> Get(p, "id", NoneId),
     first_name |-> FirstGiven(NameData(p).value).value,
     last_name |-> Get(NameData(p).value, "family", <<>>),
     gender |-> Get(p, "gender", NoneId),
     birth_date |-> Get(p, "birthDate", NoneDate)]

\* a delete view that takes every 2xx status for a success
delete_succeeded_2xx(status) == status >= 200 /\ status < 300

\* r.status_code in [200, 204]
delete_succeeded(status) == status \in {200, 204}

patient_detail(req, patient_id, rows, up) ==
    LET r == up[1]
    IN  CASE req.method = "GET" ->
               LET calls == <<Call("GET", <<"Patient", patient_id>>, r)>>
                   e == IF FetchError(r) # "" THEN FetchError(r) ELSE PatientViewError(r.doc)
               IN  IF e = "" THEN Result(JsonResponse(200, PatientView(r.doc)), calls, rows)
                   ELSE Result(ErrorResponse(400, e), calls, rows)
          [] req.method = "PUT" ->
               IF is_valid(req.data)
               THEN LET data == validated_data(req.data)
                        payload == [resourceType |-> "Patient", id |-> patient_id,
                                    name |-> ApiPayload(data).name,
                                    gender |-> data.gender,
                                    birthDate |-> data.birth_date]
                        calls == <<CallJson("PUT", <<"Patient", patient_id>>, payload, r)>>
                        e == SendError(r)
                    IN  IF e = ""
                        THEN Result(JsonResponse(200, [id |-> patient_id, status |-> "updated",
                                                       message |-> "Patient updated successfully"]),
                                    calls,
                                    log_operation(rows, "UPDATE", patient_id, "success",
                                                  "Patient updated"))
                        ELSE Result(ErrorResponse(400, e), calls,
                                    log_operation(rows, "UPDATE", patient_id, "failed", e))
               ELSE Result(JsonResponse(400, [errors |-> SerializerErrors(req.data)]), <<>>, rows)
          [] OTHER ->
               \* DELETE
               LET calls == <<Call("DELETE", <<"Patient", patient_id>>, r)>>
               IN  IF r.raised
                   THEN Result(ErrorResponse(400, "ConnectionError"), calls,
                               log_operation(rows, "DELETE", patient_id, "failed",
                                             "ConnectionError"))
                   ELSE IF delete_succeeded(r.status)
                   THEN Result(JsonResponse(204, [message |-> "Patient deleted"]), calls,
                               log_operation(rows, "DELETE", patient_id, "success",
                                             "Patient deleted"))
                   ELSE Result(ErrorResponse(404, "Patient not found"), calls,
                               log_operation(rows, "DELETE", patient_id, "failed", r.text))

all_patient_count(req, rows, up) ==
    LET r == up[1]
        calls == <<Call("GET", <<"Patient", "?_summary=count">>, r)>>
        e == FetchError(r)
    IN  IF e = "" THEN Result(JsonResponse(200, [count |-> Get(r.doc, "total", 0)]), calls, rows)
        ELSE Result(ErrorResponse(400, e), calls, rows)

(***************************************************************************)
(* Search, the two lists and the flattening of a name to one text.          *)
(***************************************************************************)
\* the three filters as the search views read them: absent is "", and the
\* value is stripped
SearchParams(req) ==
    [name       |-> strip(Get(req.GET, "name", <<>>)),
     id         |-> strip(Get(req.GET, "id", <<>>)),
     birth_date |-> strip(Get(req.GET, "birth_date", <<>>))]

\* a search that takes any request for one with a filter
any_param_always(params) == TRUE

\* any([name, patient_id, birth_date])
any_param(params) ==
    params.name # <<>> \/ params.id # <<>> \/ params.birth_date # <<>>

\* the FHIR query: one key and quoted value per filter that is set, in the
\* order name, _id, birthdate ("&".join puts an & between them)
SearchQuery(params) ==
    (IF params.name # <<>> THEN <<[key |-> "name", value |-> quote(params.name)]>> ELSE <<>>)
    \o (IF params.id # <<>> THEN <<[key |-> "_id", value |-> quote(params.id)]>> ELSE <<>>)
    \o (IF params.birth_date # <<>>
        THEN <<[key |-> "birthdate", value |-> quote(params.birth_date)]>> ELSE <<>>)

\* f"{' '.join(name_data.get('given', []))} {name_data.get('family', '')}".strip()
fstring_full_name(name_data) ==
    strip(join(<<" ">>, Get(name_data, "given", <<>>)) \o <<" ">> \o Get(name_data, "family", <<>>))

\* name_data and full_name as search_patient computes them; error is the
\* exception raised, "" when there is none
search_full_name(p) ==
    IF NameData(p).error # "" THEN [error |-> NameData(p).error, value |-> <<>>]
    ELSE [error |-> "", value |-> fstring_full_name(NameData(p).value)]

\* the same two lines in list_patients_by_last_updated
list_full_name(p) ==
    IF NameData(p).error # "" THEN [error |-> NameData(p).error, value |-> <<>>]
    ELSE [error |-> "", value |-> fstring_full_name(NameData(p).value)]

\* the same two lines in search_patients_view
html_search_full_name(p) ==
    IF NameData(p).error # "" THEN [error |-> NameData(p).error, value |-> <<>>]
    ELSE [error |-> "", value |-> fstring_full_name(NameData(p).value)]

\* r.json().get("entry", []), each with entry.get("resource", {})
Resources(doc) ==
    LET entries == Get(doc, "entry", <<>>)
    IN  [i \in 1..Len(entries) |-> Get(entries[i], "resource", EmptyDict)]

SearchRow(p, full_name) ==
    [id |-> Get(p, "id", NoneId), name |-> full_name,
     gender |-> Get(p, "gender", NoneId), birth_date |-> Get(p, "birthDate", NoneDate)]

search_patient(req, rows, up) ==
    LET params == SearchParams(req)
    IN  IF ~any_param(params)
        THEN Result(ErrorResponse(400, "Provide at least one search parameter"), <<>>, rows)
        ELSE LET r == up[1]
                 calls == <<[method |-> "GET", url |-> <<"Patient">>,
                             query |-> SearchQuery(params), outcome |-> r]>>
                 ps == Resources(r.doc)
                 e == IF FetchError(r) # "" THEN FetchError(r)
                      ELSE IF \E i \in 1..Len(ps) : search_full_name(ps[i]).error # ""
                      THEN "IndexError"
                      ELSE ""
                 results == [i \in 1..Len(ps) |-> SearchRow(ps[i], search_full_name(ps[i]).value)]
             IN  IF e # "" THEN Result(ErrorResponse(400, e), calls, rows)
                 ELSE IF results = <<>>
                 THEN Result(ErrorResponse(404, "No patients found"), calls, rows)
                 ELSE Result(JsonResponse(200, [count |-> Len(results), results |-> results]),
                             calls, rows)

list_patients_by_last_updated(req, rows, up) ==
    LET last_updated == Get(req.GET, "lastUpdated", <<>>)
        r == up[1]
        calls == <<[method |-> "GET", url |-> <<"Patient">>,
                    query |-> <<[key |-> "_lastUpdated", value |-> last_updated]>>,
                    outcome |-> r]>>
        ps == Resources(r.doc)
        e == IF FetchError(r) # "" THEN FetchError(r)
             ELSE IF \E i \in 1..Len(ps) : list_full_name(ps[i]).error # "" THEN "IndexError"
             ELSE ""
        results == [i \in 1..Len(ps) |->
                       [id |-> Get(ps[i], "id", NoneId), name |-> list_full_name(ps[i]).value]]
    IN  IF e # "" THEN Result(ErrorResponse(400, e), calls, rows)
        ELSE Result(JsonResponse(200, [count |-> Len(results), results |-> results]), calls, rows)

(***************************************************************************)
(* The HTML views.  None of them has a try block: an exception of the       *)
(* HTTP client, of r.json() or of an index leaves the view.                 *)
(***************************************************************************)
\* request.POST.get(field): None when the form did not send it
PostGet(req, field) == Get(req.data, field, NoneText)

\* the payload the form views build from the raw form fields
FormPayload(req) ==
    [resourceType |-> "Patient",
     name |-> << [given |-> <<PostGet(req, "first_name")>>,
                  family |-> PostGet(req, "last_name")] >>,
     gender |-> Get(req.data, "gender", NoneId),
     birthDate |-> Get(req.data, "birth_date", NoneDate)]

create_patient_view(req, rows, up) ==
    IF req.method = "POST"
    THEN LET r == up[1]
             calls == <<CallJson("POST", <<"Patient">>, FormPayload(req), r)>>
         IN  IF r.raised THEN Result(Unhandled("ConnectionError"), calls, rows)
             ELSE Result(Redirect("list_patients_view"), calls, rows)
    ELSE Result(Render("patients/index.html", EmptyDict), <<>>, rows)

\* "if not p.get('name'): continue": a missing and an empty name are skipped
HasName(p) == Get(p, "name", <<>>) # <<>>

list_patients_view(req, rows, up) ==
    LET r == up[1]
        calls == <<Call("GET", <<"Patient", "?_count=50&_sort=-_lastUpdated">>, r)>>
        ps == SelectSeq(Resources(r.doc), HasName)
        e == IF r.raised THEN "ConnectionError"
             ELSE IF r.status # 200 THEN ""
             ELSE IF ~r.isJson THEN "JSONDecodeError"
             ELSE IF \E i \in 1..Len(ps) : PatientViewError(ps[i]) # "" THEN "IndexError"
             ELSE ""
        patients == IF r.status = 200 THEN [i \in 1..Len(ps) |-> PatientView(ps[i])] ELSE <<>>
    IN  IF e # "" THEN Result(Unhandled(e), calls, rows)
        ELSE Result(Render("patients/list_patients.html", [patients |-> patients]), calls, rows)

search_patients_view(req, rows, up) ==
    LET params == SearchParams(req)
    IN  IF ~any_param(params)
        THEN Result(Render("patients/search.html", [results |-> <<>>]), <<>>, rows)
        ELSE LET r == up[1]
                 calls == <<[method |-> "GET", url |-> <<"Patient">>,
                             query |-> SearchQuery(params), outcome |-> r]>>
                 ps == Resources(r.doc)
                 e == IF r.raised THEN "ConnectionError"
                      ELSE IF r.status # 200 THEN ""
                      ELSE IF ~r.isJson THEN "JSONDecodeError"
                      ELSE IF \E i \in 1..Len(ps) : html_search_full_name(ps[i]).error # ""
                      THEN "IndexError"
                      ELSE ""
                 results == IF r.status = 200
                            THEN [i \in 1..Len(ps) |->
                                     SearchRow(ps[i], html_search_full_name(ps[i]).value)]
                            ELSE <<>>
             IN  IF e # "" THEN Result(Unhandled(e), calls, rows)
                 ELSE Result(Render("patients/search.html", [results |-> results]), calls, rows)

\* the exception of the fetch that opens the update and delete pages, or ""
FormFetchError(r) ==
    IF r.raised THEN "ConnectionError"
    ELSE IF r.status # 200 THEN ""
    ELSE IF ~r.isJson THEN "JSONDecodeError"
    ELSE PatientViewError(r.doc)

update_patient_view(req, patient_id, rows, up) ==
    LET r == up[1]
        fetch == <<Call("GET", <<"Patient", patient_id>>, r)>>
        e == FormFetchError(r)
        patient == IF r.status = 200 THEN PatientView(r.doc) ELSE EmptyDict
    IN  IF e # "" THEN Result(Unhandled(e), fetch, rows)
        ELSE IF req.method = "POST"
        THEN LET w == up[2]
                 payload == [resourceType |-> "Patient", id |-> patient_id,
                             name |-> FormPayload(req).name,
                             gender |-> FormPayload(req).gender,
                             birthDate |-> FormPayload(req).birthDate]
                 calls == Append(fetch, CallJson("PUT", <<"Patient", patient_id>>, payload, w))
             IN  IF w.raised THEN Result(Unhandled("ConnectionError"), calls, rows)
                 ELSE Result(Redirect("list_patients_view"), calls, rows)
        ELSE Result(Render("patients/update.html", [patient |-> patient]), fetch, rows)

delete_patient_view(req, patient_id, rows, up) ==
    LET r == up[1]
        fetch == <<Call("GET", <<"Patient", patient_id>>, r)>>
        e == FormFetchError(r)
        patient == IF r.status = 200
                   THEN [id |-> PatientView(r.doc).id,
                         first_name |-> PatientView(r.doc).first_name,
                         last_name |-> PatientView(r.doc).last_name]
                   ELSE EmptyDict
    IN  IF e # "" THEN Result(Unhandled(e), fetch, rows)
        ELSE IF req.method = "POST"
        THEN LET w == up[2]
                 calls == Append(fetch, Call("DELETE", <<"Patient", patient_id>>, w))
             IN  IF w.raised THEN Result(Unhandled("ConnectionError"), calls, rows)
                 ELSE Result(Redirect("list_patients_view"), calls, rows)
        ELSE Result(Render("patients/delete.html", [patient |-> patient]), fetch, rows)

(***************************************************************************)
(* Dispatch: the resolver picks the view, the api_view decorator refuses    *)
(* the methods it was not given, and the view runs.                         *)
(***************************************************************************)
\* @api_view([...]): 405 for any other method, before the view body runs
api_view(methods, req, rows, result) ==
    IF req.method \in methods THEN result
    ELSE Result(ErrorResponse(405, "Method not allowed"), <<>>, rows)

Serve(v, req, rows, up) ==
    CASE v.view = "create_patient" ->
           api_view({"POST"}, req, rows, create_patient(req, rows, up))
      [] v.view = "patient_detail" ->
           api_view({"GET", "PUT", "DELETE"}, req, rows,
                    patient_detail(req, v.patient_id, rows, up))
      [] v.view = "all_patient_count" ->
           api_view({"GET"}, req, rows, all_patient_count(req, rows, up))
      [] v.view = "search_patient" ->
           api_view({"GET"}, req, rows, search_patient(req, rows, up))
      [] v.view = "list_patients_by_last_updated" ->
           api_view({"GET"}, req, rows, list_patients_by_last_updated(req, rows, up))
      [] v.view = "create_patient_view" -> create_patient_view(req, rows, up)
      [] v.view = "list_patients_view" -> list_patients_view(req, rows, up)
      [] v.view = "search_patients_view" -> search_patients_view(req, rows, up)
      [] v.view = "update_patient_view" -> update_patient_view(req, v.patient_id, rows, up)
      [] v.view = "delete_patient_view" -> delete_patient_view(req, v.patient_id, rows, up)
      [] OTHER -> Result(ErrorResponse(404, "Not Found"), <<>>, rows)

(***************************************************************************)
(* The inputs the model draws from.                                         *)
(***************************************************************************)
Jane == <<"J", "a", "n", "e">>
Q == <<"Q">>
Doe == <<"D", "o", "e">>

\* a key that is either missing or holds one of the values
Field(k, values) == {EmptyDict} \cup {[x \in {k} |-> val] : val \in values}

\* a form that passes the serializer: a first name of exactly max_length
ValidForm ==
    [first_name |-> Repeat("x", MaxLength), last_name |-> Doe,
     gender |-> "female", birth_date |-> <<2000, 2, 29>>]

\* request.data / request.POST: the valid form, and forms with one field
\* missing, too long, outside the choices or not a date
Forms ==
    {ValidForm,
     [last_name |-> Doe, gender |-> "female", birth_date |-> <<2000, 2, 29>>],
     [ValidForm EXCEPT !.last_name = Repeat("x", MaxLength + 1)],
     [ValidForm EXCEPT !.gender = "robot"],
     [ValidForm EXCEPT !.birth_date = <<2001, 2, 29>>]}

\* what the HTML forms post: the valid form and one the serializer refuses
HtmlForms ==
    {ValidForm, [last_name |-> Doe, gender |-> "female", birth_date |-> <<2000, 2, 29>>]}

\* request.GET of the search endpoints: no filter, blank filters, and one
\* or two filters set
SearchQueries ==
    {EmptyDict,
     [name |-> <<" ">>, id |-> <<>>],
     [name |-> Jane \o <<" ">> \o Doe],
     [id |-> <<"p", "1">>, birth_date |-> <<"2", "0", "0", "0">>, name |-> <<" ">>]}

\* request.GET of the list endpoint
ListQueries == Field("lastUpdated", {<<>>, <<"g", "t", "2", "0", "0", "0">>})

NoQuery == EmptyDict

PatientIds == {"p1"}

\* Patient resources the server may hold
FullPatient ==
    [id |-> "p1", name |-> << [given |-> <<Jane, Q>>, family |-> Doe] >>,
     gender |-> "female", birthDate |-> <<2000, 2, 29>>]

NamelessPatient == [id |-> "p2", gender |-> "male"]

EmptyNamePatient == [id |-> "p3", name |-> <<>>, gender |-> "other"]

NoGivenPatient == [id |-> "p4", name |-> << [given |-> <<>>, family |-> Doe] >>]

Bundle(ps) == [entry |-> [i \in 1..Len(ps) |-> [resource |-> ps[i]]]]

\* what the server may do with each kind of call
ReadReplies ==
    {Raised, NotJson(200, "<html>"), Answer(404, "OperationOutcome", EmptyDict),
     Answer(200, "", FullPatient), Answer(200, "", EmptyNamePatient)}

CreateReplies ==
    {Raised, NotJson(201, "<html>"), Answer(500, "OperationOutcome", EmptyDict),
     Answer(201, "", [id |-> "u1"]), Answer(201, "", EmptyDict)}

UpdateReplies ==
    {Raised, Answer(200, "", EmptyDict), NotJson(200, "<html>"),
     Answer(404, "OperationOutcome", EmptyDict)}

DeleteReplies ==
    {Raised, Answer(200, "", EmptyDict), NotJson(204, ""), NotJson(202, "Accepted"),
     Answer(404, "OperationOutcome", EmptyDict)}

CountReplies ==
    {Raised, NotJson(200, "<html>"), Answer(500, "OperationOutcome", EmptyDict),
     Answer(200, "", [total |-> 3]), Answer(200, "", EmptyDict)}

BundleReplies ==
    {Raised, NotJson(200, "<html>"), Answer(500, "OperationOutcome", EmptyDict),
     Answer(200, "", EmptyDict)}
    \cup {Answer(200, "", Bundle(ps)) :
             ps \in {<<>>, <<FullPatient, NoGivenPatient>>,
                     <<NamelessPatient>>, <<FullPatient, EmptyNamePatient>>}}

\* the server's possible answers to the k-th call of a view
Replies(v, req, k) ==
    CASE v.view \in {"create_patient", "create_patient_view"} /\ k = 1 -> CreateReplies
      [] v.view = "patient_detail" /\ k = 1 ->
           IF req.method = "PUT" THEN UpdateReplies
           ELSE IF req.method = "DELETE" THEN DeleteReplies
           ELSE ReadReplies
      [] v.view = "all_patient_count" /\ k = 1 -> CountReplies
      [] v.view \in {"search_patient", "list_patients_by_last_updated",
                     "list_patients_view", "search_patients_view"} /\ k = 1 -> BundleReplies
      [] v.view \in {"update_patient_view", "delete_patient_view"} /\ k = 1 -> ReadReplies
      [] v.view = "update_patient_view" /\ k = 2 -> UpdateReplies
      [] v.view = "delete_patient_view" /\ k = 2 -> DeleteReplies
      [] OTHER -> {Raised}

(***************************************************************************)
(* The state machine: one inbound request per step, served to the end.      *)
(***************************************************************************)
Request(method, path, data, query) ==
    [data |-> data, path |-> path, method |-> method, GET |-> query]

NoFlat == [error |-> "", value |-> <<>>]

Init ==
    /\ log = <<>>
    /\ logBefore = <<>>
    /\ request = Request("", <<>>, EmptyDict, NoQuery)
    /\ view = [view |-> "", patient_id |-> ""]
    /\ upstream = <<>>
    /\ response = [kind |-> "none", status |-> 0]
    /\ entry = EmptyDict
    /\ site = ""
    /\ flat = NoFlat

\* A request that wrote no row leaves the audit table as it found it, so
\* whatever can follow it can as well follow the state it started from.  The
\* next request is therefore taken after the initial state and after a
\* request that wrote a row; this reaches the same states.
Settled == request.method = "" \/ log # logBefore

\* requests are served while the audit table is below the model's bound
Serving == Len(log) < MaxLog /\ Settled

\* the whole of one request: resolve, run the view against the server's
\* answers, keep what it did
Handle(req) ==
    /\ LET v == resolve(req.path)
       IN  \E o1 \in Replies(v, req, 1), o2 \in Replies(v, req, 2) :
             LET res == Serve(v, req, log, <<o1, o2>>)
             IN  /\ log' = res.log
                 /\ logBefore' = log
                 /\ request' = req
                 /\ view' = v
                 /\ upstream' = res.calls
                 /\ response' = res.response
    /\ UNCHANGED <<entry, site, flat>>

\* api/patients/
ApiPatients ==
    /\ Serving
    /\ \E req \in {Request("POST", <<"api", "patients">>, d, NoQuery) : d \in Forms}
                  \cup {Request("GET", <<"api", "patients">>, EmptyDict, NoQuery)} :
           Handle(req)

\* api/patients/<id>/
ApiPatientById ==
    /\ Serving
    /\ \E id \in PatientIds :
           \E req \in {Request(m, <<"api", "patients", id>>, EmptyDict, NoQuery) :
                           m \in {"GET", "DELETE"}}
                      \cup {Request("PUT", <<"api", "patients", id>>, d, NoQuery) : d \in Forms} :
               Handle(req)

\* api/patients/allPatientCount/
ApiAllPatientCount ==
    /\ Serving
    /\ \E req \in {Request("GET", <<"api", "patients", "allPatientCount">>, EmptyDict, NoQuery)} :
           Handle(req)

\* api/patients/search/?name=&id=&birth_date=
ApiSearch ==
    /\ Serving
    /\ \E req \in {Request("GET", <<"api", "patients", "search">>, EmptyDict, q) :
                       q \in SearchQueries} :
           Handle(req)

\* api/patients/list/?lastUpdated=
ApiList ==
    /\ Serving
    /\ \E req \in {Request("GET", <<"api", "patients", "list">>, EmptyDict, q) :
                       q \in ListQueries} :
           Handle(req)

\* the home page and its create form
HtmlCreate ==
    /\ Serving
    /\ \E req \in {Request("POST", <<>>, d, NoQuery) : d \in HtmlForms}
                  \cup {Request("GET", <<>>, EmptyDict, NoQuery)} :
           Handle(req)

\* patients/list/
HtmlList ==
    /\ Serving
    /\ \E req \in {Request("GET", <<"patients", "list">>, EmptyDict, NoQuery)} :
           Handle(req)

\* patients/search/
HtmlSearch ==
    /\ Serving
    /\ \E req \in {Request("GET", <<"patients", "search">>, EmptyDict, q) :
                       q \in SearchQueries} :
           Handle(req)

\* patients/<id>/update/
HtmlUpdate ==
    /\ Serving
    /\ \E id \in PatientIds :
           \E req \in {Request("POST", <<"patients", id, "update">>, d, NoQuery) : d \in HtmlForms}
                      \cup {Request("GET", <<"patients", id, "update">>, EmptyDict, NoQuery)} :
               Handle(req)

\* patients/<id>/delete/
HtmlDelete ==
    /\ Serving
    /\ \E id \in PatientIds :
           \E req \in {Request(m, <<"patients", id, "delete">>, EmptyDict, NoQuery) :
                           m \in {"GET", "POST"}} :
               Handle(req)

Next ==
    \/ ApiPatients
    \/ ApiPatientById
    \/ ApiAllPatientCount
    \/ ApiSearch
    \/ ApiList
    \/ HtmlCreate
    \/ HtmlList
    \/ HtmlSearch
    \/ HtmlUpdate
    \/ HtmlDelete

Spec == Init /\ [][Next]_vars

(***************************************************************************)
(* The flattening of a name, on its own: an entry of a bundle is drawn,     *)
(* and each of the three handlers that build a full name flattens it.       *)
(***************************************************************************)
GivenNames == {Jane, Q, <<>>}

GivenLists == UNION {[1..n -> GivenNames] : n \in 0..MaxGiven}

\* two dictionaries with different keys, as one
Merge(a, b) == [k \in DOMAIN a \cup DOMAIN b |-> IF k \in DOMAIN a THEN a[k] ELSE b[k]]

\* the elements of a name array: given and family each present or missing
NameRecords ==
    {Merge(g, f) : g \in Field("given", GivenLists), f \in Field("family", {Doe, <<>>})}

\* Patient resources whose name array is absent, empty or holds one name
FlattenInputs ==
    {Merge([id |-> "e1"], n) : n \in Field("name", {<<>>} \cup {<<r>> : r \in NameRecords})}

NameInit ==
    /\ log = <<>>
    /\ logBefore = <<>>
    /\ request = Request("", <<>>, EmptyDict, NoQuery)
    /\ view = [view |-> "", patient_id |-> ""]
    /\ upstream = <<>>
    /\ response = [kind |-> "none", status |-> 0]
    /\ entry \in FlattenInputs
    /\ site = ""
    /\ flat = NoFlat

Flatten(handler, result) ==
    /\ site' = handler
    /\ flat' = result
    /\ UNCHANGED <<log, logBefore, request, view, upstream, response, entry>>

FlattenSearch ==
    /\ site # "search_patient"
    /\ Flatten("search_patient", search_full_name(entry))

FlattenList ==
    /\ site # "list_patients_by_last_updated"
    /\ Flatten("list_patients_by_last_updated", list_full_name(entry))

FlattenHtmlSearch ==
    /\ site # "search_patients_view"
    /\ Flatten("search_patients_view", html_search_full_name(entry))

NameNext == FlattenSearch \/ FlattenList \/ FlattenHtmlSearch

NameSpec == NameInit /\ [][NameNext]_vars

(***************************************************************************)
(* Properties.                                                              *)
(***************************************************************************)
\* the audit rows the last request wrote
Appended == SubSeq(log, Len(logBefore) + 1, Len(log))

JsonCreate == request.method = "POST" /\ request.path = <<"api", "patients">>

HtmlCreatePost == request.method = "POST" /\ request.path = <<>>

JsonById ==
    /\ Len(request.path) = 3
    /\ request.path[1] = "api"
    /\ request.path[2] = "patients"

JsonViews ==
    {"create_patient", "patient_detail", "all_patient_count", "search_patient",
     "list_patients_by_last_updated"}

HtmlViews ==
    {"create_patient_view", "list_patients_view", "search_patients_view",
     "update_patient_view", "delete_patient_view"}

\* the server answered with a 2xx status and a JSON document
Succeeded(o) == ~o.raised /\ o.status >= 200 /\ o.status <= 299 /\ o.isJson

\* a transport error, a status outside 2xx, or a body that is not JSON
Failed(o) ==
    o.raised \/ o.status < 200 \/ o.status > 299 \/ (~o.isJson /\ o.text # "")

OperationOf(method) ==
    IF method = "POST" THEN "CREATE" ELSE IF method = "PUT" THEN "UPDATE" ELSE "DELETE"

\* C1: a create request whose input fails validation, sent to the JSON
\* endpoint or posted from the HTML create form, makes no upstream call and
\* writes no audit row.
C1_InvalidCreateTouchesNothing ==
    ((JsonCreate \/ HtmlCreatePost) /\ ~is_valid(request.data))
        => (upstream = <<>> /\ log = logBefore)

\* C2: whenever a mutating upstream call (POST, PUT, DELETE) of a request
\* fails, the request wrote one audit row with the matching operation and
\* status "failed", and the client got an error response.
C2_FailedMutationIsLogged ==
    \A i \in 1..Len(upstream) :
        (upstream[i].method \in {"POST", "PUT", "DELETE"} /\ Failed(upstream[i].outcome))
            => /\ Len(Appended) = 1
               /\ Appended[1].operation = OperationOf(upstream[i].method)
               /\ Appended[1].status = "failed"
               /\ response.kind = "json"
               /\ response.status >= 400

\* C3: a valid create on the JSON endpoint whose upstream call succeeds
\* writes exactly one audit row, (CREATE, success, the id upstream assigned),
\* and answers 201 with that id.
C3_CreateSuccessLogsOnce ==
    (/\ JsonCreate
     /\ is_valid(request.data)
     /\ upstream # <<>>
     /\ Succeeded(upstream[1].outcome)
     /\ "id" \in DOMAIN upstream[1].outcome.doc)
        => /\ Len(upstream) = 1
           /\ Len(Appended) = 1
           /\ Appended[1].operation = "CREATE"
           /\ Appended[1].status = "success"
           /\ Appended[1].patient_id = upstream[1].outcome.doc["id"]
           /\ SubSeq(log, 1, Len(logBefore)) = logBefore
           /\ response.kind = "json"
           /\ response.status = 201
           /\ response.data.id = upstream[1].outcome.doc["id"]

\* a valid create that succeeded upstream, with a row already in the table
C3_Witness ==
    /\ JsonCreate
    /\ is_valid(request.data)
    /\ upstream # <<>>
    /\ Succeeded(upstream[1].outcome)
    /\ "id" \in DOMAIN upstream[1].outcome.doc
    /\ Len(logBefore) >= 1

\* C4: the count, search and list paths are dispatched to their own views,
\* never to the by-id view, and GET count answers 200 {count}.
C4_OwnHandlers ==
    /\ request.path = <<"api", "patients", "allPatientCount">>
           => (view.view = "all_patient_count"
               /\ (Succeeded(upstream[1].outcome)
                       => (response.status = 200 /\ "count" \in DOMAIN response.data)))
    /\ request.path = <<"api", "patients", "search">> => view.view = "search_patient"
    /\ request.path = <<"api", "patients", "list">>
           => view.view = "list_patients_by_last_updated"

\* C5: a JSON delete that upstream answers with 200 or 204 writes exactly
\* one row (DELETE, success, id) and answers 204; answered with any other
\* status it writes exactly one row (DELETE, failed, the upstream body) and
\* answers 404 {"error": "Patient not found"}; whatever came before.
C5_DeleteOutcome ==
    (JsonById /\ request.method = "DELETE")
        => /\ Len(upstream) = 1
           /\ ~upstream[1].outcome.raised
                  => LET r == upstream[1].outcome
                     IN  /\ Len(Appended) = 1
                         /\ SubSeq(log, 1, Len(logBefore)) = logBefore
                         /\ Appended[1].operation = "DELETE"
                         /\ Appended[1].patient_id = request.path[3]
                         /\ IF r.status \in {200, 204}
                            THEN /\ Appended[1].status = "success"
                                 /\ response.status = 204
                            ELSE /\ Appended[1].status = "failed"
                                 /\ Appended[1].message = r.text
                                 /\ response.status = 404
                                 /\ response.data = [error |-> "Patient not found"]

\* a delete of an id that the request before it deleted with success,
\* answered 404 by upstream this time
C5_Witness ==
    /\ JsonById
    /\ request.method = "DELETE"
    /\ Len(logBefore) >= 1
    /\ logBefore[Len(logBefore)] =
           PatientLog("DELETE", request.path[3], "success", "Patient deleted")
    /\ upstream # <<>>
    /\ upstream[1].outcome.status = 404

\* C6: no failure of an upstream call leaves a view as an unhandled
\* exception; a JSON view answers a client error carrying the error text, an
\* HTML read page renders with empty data.
C6_NoUnhandledException ==
    /\ response.kind # "exception"
    /\ (/\ view.view \in JsonViews
        /\ upstream # <<>>
        /\ (upstream[1].outcome.raised \/ upstream[1].outcome.status >= 400))
           => (/\ response.kind = "json"
               /\ response.status >= 400
               /\ response.status <= 499
               /\ "error" \in DOMAIN response.data)
    /\ (/\ view.view \in HtmlViews
        /\ request.method = "GET"
        /\ upstream # <<>>
        /\ (upstream[1].outcome.raised \/ upstream[1].outcome.status # 200))
           => (/\ response.kind = "html"
               /\ \A k \in DOMAIN response.context : response.context[k] = <<>>)

\* the three search filters are all absent, empty or whitespace
AllFiltersEmpty ==
    /\ SearchParams(request).name = <<>>
    /\ SearchParams(request).id = <<>>
    /\ SearchParams(request).birth_date = <<>>

\* the view turned the request away before any upstream call
RejectedLocally ==
    \/ view.view = "create_patient"
           /\ (request.method # "POST" \/ ~is_valid(request.data))
    \/ view.view = "patient_detail"
           /\ (\/ request.method \notin {"GET", "PUT", "DELETE"}
               \/ request.method = "PUT" /\ ~is_valid(request.data))
    \/ view.view \in {"all_patient_count", "list_patients_by_last_updated"}
           /\ request.method # "GET"
    \/ view.view = "search_patient" /\ (request.method # "GET" \/ AllFiltersEmpty)

RuleFullName(p) ==
    LET names == Get(p, "name", <<>>)
        first == IF names = <<>> THEN EmptyDict ELSE names[1]
    IN  strip(join(<<" ">>, Get(first, "given", <<>>)) \o <<" ">> \o Get(first, "family", <<>>))

\* C8: in each of the three handlers that build a full name, whatever the
\* shape of the entry's name field (absent, empty, populated, given or
\* family missing), the flattening does not fail and gives the rule's full
\* name; {given: [Jane, Q], family: Doe} gives "Jane Q Doe", {given: [],
\* family: Doe} gives "Doe".
C8_FlatteningTotal ==
    site # ""
        => /\ flat.error = ""
           /\ flat.value = RuleFullName(entry)
           /\ ("name" \in DOMAIN entry /\ entry["name"] = << [given |-> <<Jane, Q>>, family |-> Doe] >>)
                  => flat.value = Jane \o <<" ">> \o Q \o <<" ">> \o Doe
           /\ ("name" \in DOMAIN entry /\ entry["name"] = << [given |-> <<>>, family |-> Doe] >>)
                  => flat.value = Doe

\* the query a search with these filters should carry: exactly the filters
\* that are not empty
ExpectedKeys ==
    (IF SearchParams(request).name # <<>> THEN {"name"} ELSE {})
    \cup (IF SearchParams(request).id # <<>> THEN {"_id"} ELSE {})
    \cup (IF SearchParams(request).birth_date # <<>> THEN {"birthdate"} ELSE {})

\* C9: a GET on the JSON search path with all filters empty answers 400 and
\* makes no upstream call; with a filter set it makes exactly one call whose
\* query holds exactly the filters set, and answers 404 when upstream
\* returns no entry and otherwise 200 {count, results}, count being the
\* number of results.
C9_SearchContract ==
    (request.method = "GET" /\ request.path = <<"api", "patients", "search">>)
        => IF AllFiltersEmpty
           THEN response.status = 400 /\ upstream = <<>>
           ELSE /\ Len(upstream) = 1
                /\ "query" \in DOMAIN upstream[1]
                /\ {upstream[1].query[i].key : i \in 1..Len(upstream[1].query)} = ExpectedKeys
                /\ Succeeded(upstream[1].outcome)
                       => IF Resources(upstream[1].outcome.doc) = <<>>
                          THEN response.status = 404
                          ELSE /\ response.status = 200
                               /\ response.data.count = Len(response.data.results)
                               /\ response.data.count = Len(Resources(upstream[1].outcome.doc))

\* C10: a request leaves the rows the audit table held as they were and in
\* place, adds at most one row, and adds none when it is a read (GET),
\* whether its upstream call succeeded or failed.
C10_AppendOnly ==
    /\ Len(log) >= Len(logBefore)
    /\ Len(log) <= Len(logBefore) + 1
    /\ SubSeq(log, 1, Len(logBefore)) = logBefore
    /\ request.method = "GET" => log = logBefore

\* a read whose upstream call failed, served with a row already in the table
C10_Witness ==
    /\ request.method = "GET"
    /\ logBefore # <<>>
    /\ upstream # <<>>
    /\ upstream[1].outcome.raised
    /\ log = logBefore

====
